---------------------------- MODULE Spec2Model ----------------------------
(***************************************************************************)
(* CD-ROM image drive of src/dos/cdrom_image.cpp: the track lookup and the *)
(* shared audio player (CDROM_Interface_Image::player) driven by two       *)
(* execution contexts, the control context ("ctl": PlayAudioSector,        *)
(* PauseAudio, StopAudio) and the mixer's fill callback ("cb":             *)
(* CDAudioCallBack, which may re-enter PlayAudioSector).                   *)
(*                                                                         *)
(* Granularity: one step is the code a context runs between two            *)
(* synchronisation points (SDL_LockMutex / SDL_UnlockMutex) or calls into  *)
(* PlayAudioSector.  SDL_UnlockMutex by the owner is taken to succeed.     *)
(* A second specification, LoadSpec, follows SetDevice: LoadCueSheet, one   *)
(* step per cue line, AddTrack, and LoadIsoFile.                           *)
(***************************************************************************)
EXTENDS Integers, Sequences, FiniteSets, TLC

\* ------------------------------------------------------------ constants
BYTES_PER_RAW_REDBOOK_FRAME == 2352
BYTES_PER_COOKED_REDBOOK_FRAME == 2048
BYTES_PER_REDBOOK_PCM_FRAME == 4
REDBOOK_FRAMES_PER_SECOND == 75
REDBOOK_PCM_FRAMES_PER_SECOND == 44100
MAX_REDBOOK_SECTOR == 449999
MIN_REDBOOK_TRACKS == 2
DataAttr == 64

NoFile == "nofile"
NoCd == "nocd"
ThisCd == "image"
NotFound == 0

\* ------------------------------------------------------------ bounds
\* Largest sector a control Play may name (the disc's lead-out is at 7).
MaxPlayStart == 7
\* Largest length, in Redbook sectors, a control Play may request.
MaxPlayLen == 3
\* Largest number of sectors' worth of PCM frames one fill request asks for.
MaxFillSectors == 2
\* Most lines of a cue sheet, the end of the file not counted.
MaxCueLines == 7
\* Largest frame count an INDEX line gives.
MaxCueFrame == 2
\* Largest frame count a PREGAP line gives.
MaxCuePregap == 1
\* Largest number a TRACK line gives.
MaxCueNumber == 2
\* Largest sector (low 32 bits) a request on a loaded table names; -1, the
\* 32-bit value 2^32-1, is requested besides.
MaxLoadSector == 7
\* Largest length of a Play on a loaded table.
MaxLoadLen == 1
\* Largest value of the bits above the low 32 of a requested sector.
MaxHigh == 1
MaxReloadLines == 3

VARIABLES
    tracks,       \* vector<Track> tracks
    files,        \* the ifstream state of every BinaryFile: position, failbit
    player,       \* the imagePlayer singleton's fields
    chanEnabled,  \* player.channel's enabled state
    mutexOk,      \* whether player.mutex was created (SDL_CreateMutex != NULL)
    mutex,        \* player.mutex: owner and recursion depth
    proc,         \* per context: position and PlayAudioSector/callback locals
    lastCtl,      \* the control context's last command, with a Play's outcome
    ctlDone,      \* the host issues no further control command
    ld            \* SetDevice: its position, LoadCueSheet's locals, its result

vars == <<tracks, files, player, chanEnabled, mutexOk, mutex, proc, lastCtl,
          ctlDone, ld>>

Contexts == {"ctl", "cb"}

\* ------------------------------------------------------------ the disc
\* The table LoadCueSheet/AddTrack build for
\*   FILE "a.bin" BINARY / TRACK 1 MODE1/2048 / INDEX 01 00:00:00
\*   FILE "b.bin" BINARY / TRACK 2 AUDIO / PREGAP 00:00:01 / INDEX 01 00:00:00
\*   FILE "c.bin" BINARY / TRACK 3 AUDIO / INDEX 01 00:00:00
\* with a.bin of 2 cooked sectors and b.bin, c.bin of 2 raw sectors each.
\*
\* The single-file images SetDevice is given.  A volume descriptor sits at the
\* byte offset at which CanReadPVD looks for one under the geometries listed
\* in ImagePvd (1: 2048 mode 1, 2: 2352 mode 1, 3: 2336 mode 2, 4: 2352 mode 2).
\*   I1..I4  17 sectors of one geometry each, the descriptor in sector 16
\*   I5      17 raw sectors, no descriptor
\*   I6      a raw mode 1 image cut 7 bytes into its descriptor
\*   I7      a 2336-byte mode 2 image cut right after its descriptor
\*   I8      17 raw sectors with a descriptor at the offsets of geometries 1 and 2
ImageNames == {"I1", "I2", "I3", "I4", "I5", "I6", "I7", "I8"}
ImageLength(f) ==
    CASE f = "I1" -> 17 * BYTES_PER_COOKED_REDBOOK_FRAME
      [] f = "I3" -> 17 * 2336
      [] f = "I6" -> 16 * BYTES_PER_RAW_REDBOOK_FRAME + 16 + 7
      [] f = "I7" -> 16 * 2336 + 24 + BYTES_PER_COOKED_REDBOOK_FRAME
      [] OTHER -> 17 * BYTES_PER_RAW_REDBOOK_FRAME
ImagePvd(f) ==
    CASE f = "I1" -> {1}
      [] f \in {"I2", "I6"} -> {2}
      [] f \in {"I3", "I7"} -> {3}
      [] f = "I4" -> {4}
      [] f = "I8" -> {1, 2}
      [] OTHER -> {}
\* The descriptor is ISO 9660's ("CD001", told by bytes 0..6 of the sector) or
\* High Sierra's ("CDROM", bytes 8..14).
ImageId(f) == IF f = "I4" THEN "CDROM" ELSE "CD001"

FileLength ==
    [f \in {"A", "B", "C"} \cup ImageNames |->
        IF f = "A" THEN 2 * BYTES_PER_COOKED_REDBOOK_FRAME
        ELSE IF f \in {"B", "C"} THEN 2 * BYTES_PER_RAW_REDBOOK_FRAME
        ELSE ImageLength(f)]

Disc ==
    << [number |-> 1, start |-> 0, length |-> 2, skip |-> 0,
        sectorSize |-> BYTES_PER_COOKED_REDBOOK_FRAME, mode2 |-> FALSE, attr |-> DataAttr, file |-> "A"],
       [number |-> 2, start |-> 3, length |-> 2, skip |-> 0,
        sectorSize |-> BYTES_PER_RAW_REDBOOK_FRAME, mode2 |-> FALSE, attr |-> 0, file |-> "B"],
       [number |-> 3, start |-> 5, length |-> 2, skip |-> 0,
        sectorSize |-> BYTES_PER_RAW_REDBOOK_FRAME, mode2 |-> FALSE, attr |-> 0, file |-> "C"],
       [number |-> 4, start |-> 7, length |-> 0, skip |-> 0,
        sectorSize |-> BYTES_PER_RAW_REDBOOK_FRAME, mode2 |-> FALSE, attr |-> 0, file |-> NoFile] >>

\* ------------------------------------------------------------ helpers
Min(a, b) == IF a < b THEN a ELSE b
Max(a, b) == IF a > b THEN a ELSE b

\* clamp() of support.h as PlayAudioSector uses it
clamp(v, lo, hi) == IF v < lo THEN lo ELSE IF v > hi THEN hi ELSE v

CeilDiv(a, b) == (a + b - 1) \div b

\* ------------------------------------------------------------ track source
\* BinaryFile::seek: seekg on a stream whose failbit is set does nothing.
FileSeek(f, offset) ==
    IF f.fail THEN [ok |-> FALSE, file |-> f]
              ELSE [ok |-> TRUE, file |-> [f EXCEPT !.pos = offset]]

\* BinaryFile::decode: read desired frames' bytes; a read that reaches the end
\* of the file sets failbit; the frames are the bytes read, rounded up.
FileDecode(f, length, desired_track_frames) ==
    LET want == desired_track_frames * BYTES_PER_REDBOOK_PCM_FRAME
        avail == Max(length - f.pos, 0)
        gcount == IF f.fail THEN 0 ELSE Min(want, avail)
    IN [frames |-> CeilDiv(gcount, BYTES_PER_REDBOOK_PCM_FRAME),
        file |-> [pos |-> f.pos + gcount, fail |-> f.fail \/ gcount < want]]

getRate(f) == REDBOOK_PCM_FRAMES_PER_SECOND
getChannels(f) == 2
\* BinaryFile::getEndian is AUDIO_S16LSB, which is AUDIO_S16SYS on a
\* little-endian host.
EndianIsNative(f) == TRUE

\* ------------------------------------------------------------ 32-bit values
\* A uint32_t (Track::start, Track::length, GetTrack's sector) is held as the
\* int that has the same 32 bits: 0 .. 2^31-1 as themselves, 2^32-k as -k.
\* Sums, differences and products of such values are then the plain integer
\* ones, a conversion between uint32_t and int keeps the value, and only the
\* unsigned comparisons differ: a value with the top bit set is the larger.
ULt(a, b) == IF (a < 0) = (b < 0) THEN a < b ELSE b < 0
ULe(a, b) == a = b \/ ULt(a, b)

\* C++ division and remainder of ints: the quotient is truncated toward 0.
TDiv(a, b) == IF a >= 0 THEN a \div b ELSE -((-a) \div b)
TRem(a, b) == a - b * TDiv(a, b)

\* BinaryFile::read: seekg to an absolute offset, read count bytes; the
\* stream's failbit, once set, makes every later seekg and read fail.
FileRead(f, length, seek, count) ==
    IF f.fail THEN [ok |-> FALSE, file |-> f]
    ELSE IF seek < 0 THEN [ok |-> FALSE, file |-> [f EXCEPT !.fail = TRUE]]
    ELSE IF seek + count <= length
         THEN [ok |-> TRUE, file |-> [pos |-> seek + count, fail |-> FALSE]]
         ELSE [ok |-> FALSE, file |-> [pos |-> Max(seek, length), fail |-> TRUE]]

\* ------------------------------------------------------------ GetTrack
RECURSIVE WalkTracks(_, _, _)
WalkTracks(i, lower_bound, sector) ==
    IF i > Len(tracks) THEN NotFound
    ELSE LET upper_bound == tracks[i].start + tracks[i].length
         IN IF ULe(lower_bound, sector) /\ ULt(sector, upper_bound)
            THEN i
            ELSE WalkTracks(i + 1, upper_bound, sector)

GetTrack(sector) ==
    IF \/ ULt(MAX_REDBOOK_SECTOR, sector)
       \/ Len(tracks) < MIN_REDBOOK_TRACKS
       \/ ULe(tracks[Len(tracks)].start, sector)
    THEN NotFound
    ELSE WalkTracks(1, tracks[1].start, sector)

\* ------------------------------------------------------------ SetDevice's state
\* "Track track;" of LoadCueSheet and LoadIsoFile: the members' initialisers.
DefaultTrack ==
    [number |-> 0, start |-> 0, length |-> 0, skip |-> 0,
     sectorSize |-> 0, mode2 |-> FALSE, attr |-> 0, file |-> NoFile]

\* LoadCueSheet's locals as it declares them.
LoadLocals ==
    [track |-> DefaultTrack, shift |-> 0, currPregap |-> 0, totalPregap |-> 0,
     prestart |-> -1, canAddTrack |-> FALSE]

\* SetDevice's state: pc is "idle" (not called yet), "cue" (in LoadCueSheet's
\* loop), "iso" (LoadCueSheet returned false, LoadIsoFile is next), "loaded"
\* (returned true), "failed" (returned false) or "aborted" (the process died
\* in an assertion or a null dereference).  lines counts the cue lines read,
\* opened the files the sheet has opened, asserts tells whether the build
\* keeps assert() (no NDEBUG).
LoadState(pc, loc, lines, opened, asserts) ==
    [pc |-> pc, loc |-> loc, lines |-> lines, opened |-> opened,
     asserts |-> asserts]

\* ------------------------------------------------------------ AddTrack
\* What a TRACK line's type selects: sectorSize and attr (0 means no such type).
TrackSectorSize(type) ==
    CASE type = "AUDIO" -> BYTES_PER_RAW_REDBOOK_FRAME
      [] type = "MODE1/2048" -> BYTES_PER_COOKED_REDBOOK_FRAME
      [] type = "MODE1/2352" -> BYTES_PER_RAW_REDBOOK_FRAME
      [] type = "MODE2/2336" -> 2336
      [] type = "MODE2/2352" -> BYTES_PER_RAW_REDBOOK_FRAME
      [] OTHER -> 0

TrackAttr(type) == IF type = "AUDIO" THEN 0 ELSE DataAttr
TrackMode2(type) == type \in {"MODE2/2336", "MODE2/2352"}

\* AddTrack's result: res is "ok" (true), "fail" (false) or "abort" (the
\* process died), with the table and the by-reference arguments as it left them.
AddResult(res, t, curr, shift, totalPregap) ==
    [res |-> res, tracks |-> t, curr |-> curr, shift |-> shift,
     totalPregap |-> totalPregap]

\* AddTrack's "error checks" on the current track against the stored previous one
AddTrackRejects(prev, curr) ==
    \/ curr.number <= 1
    \/ prev.number + 1 # curr.number
    \/ ULt(curr.start, prev.start + prev.length)

\* The previous track's length when the current track opens another file:
\* the rest of the previous file in sectors, a partial sector counted whole.
PaddedLength(fileLength, prev) ==
    LET tmp == fileLength - prev.skip
    IN TDiv(tmp, prev.sectorSize)
         + (IF TRem(tmp, prev.sectorSize) # 0 THEN 1 ELSE 0)

\* a same-file length that counts the frames between INDEX 00 and INDEX 01
\* into the previous track
SameFileLength_KeepsGap(prev, start, totalPregap, skip) ==
    IF prev.length = 0 THEN start + totalPregap - prev.start
                       ELSE prev.length

\* The previous track's length when the current track is in the same file
SameFileLength(prev, start, totalPregap, skip) ==
    IF prev.length = 0 THEN start + totalPregap - prev.start - skip
                       ELSE prev.length

\* The stored previous track with its length filled in, then the checks and
\* the push_back.
AddChecked(t, prev, curr, shift, totalPregap) ==
    LET stored == [t EXCEPT ![Len(t)] = prev]
    IN IF AddTrackRejects(prev, curr)
       THEN AddResult("fail", stored, curr, shift, totalPregap)
       ELSE AddResult("ok", Append(stored, curr), curr, shift, totalPregap)

AddTrack(t, curr, shift, prestart, totalPregap, currPregap, asserts) ==
    LET skip == IF prestart >= 0 THEN curr.start - prestart ELSE 0
    IN IF prestart >= 0 /\ prestart > curr.start
       THEN AddResult("fail", t, curr, shift, totalPregap)
       ELSE IF t = <<>>
       THEN IF asserts /\ curr.number # 1
            THEN AddResult("abort", t, curr, shift, totalPregap)
            ELSE LET c == [curr EXCEPT !.skip = skip * curr.sectorSize,
                                       !.start = curr.start + currPregap]
                 IN AddResult("ok", Append(t, c), c, shift, currPregap)
       ELSE LET prev == t[Len(t)]
            IN IF prev.file = curr.file
               THEN LET start == curr.start + shift
                        plen == SameFileLength(prev, start, totalPregap, skip)
                        tp == totalPregap + currPregap
                        c == [curr EXCEPT
                                !.start = start + tp,
                                !.skip = curr.skip + prev.skip
                                           + plen * prev.sectorSize
                                           + skip * curr.sectorSize]
                    IN AddChecked(t, [prev EXCEPT !.length = plen], c, shift, tp)
               ELSE IF prev.file = NoFile \/ prev.sectorSize = 0
               THEN AddResult("abort", t, curr, shift, totalPregap)
               ELSE LET plen == PaddedLength(FileLength[prev.file], prev)
                        c == [curr EXCEPT
                                !.start = curr.start + prev.start + plen
                                            + currPregap,
                                !.skip = skip * curr.sectorSize]
                    IN AddChecked(t, [prev EXCEPT !.length = plen], c,
                                  shift + prev.start + plen, currPregap)

\* ------------------------------------------------------------ player
InitPlayer ==
    [trackFile |-> NoFile, cd |-> NoCd, addFrames |-> "none",
     startSector |-> 0, totalRedbookFrames |-> 0,
     playedTrackFrames |-> 0, totalTrackFrames |-> 0,
     isPlaying |-> FALSE, isPaused |-> FALSE]

Idle == [pc |-> "idle", start |-> 0, req |-> 0, len |-> 0, track |-> 0, desired |-> 0]

\* Mutant of Paused: pausing also toggles the playing flag.
Paused_TogglesPlaying(p, resume) ==
    [p EXCEPT !.isPaused = ~resume, !.isPlaying = resume]

\* StopAudio's effect on the player's fields
Stopped(p) == [p EXCEPT !.isPlaying = FALSE, !.isPaused = FALSE]

\* PauseAudio's effect on the player's fields
Paused(p, resume) == [p EXCEPT !.isPaused = ~resume]

Init ==
    /\ tracks = Disc
    /\ files = [f \in DOMAIN FileLength |-> [pos |-> 0, fail |-> FALSE]]
    /\ player = InitPlayer
    /\ chanEnabled = FALSE
    /\ mutexOk \in BOOLEAN
    /\ mutex = [owner |-> "none", depth |-> 0]
    /\ proc = [c \in Contexts |-> Idle]
    /\ lastCtl = "none"
    /\ ctlDone = FALSE
    /\ ld = LoadState("loaded", LoadLocals, 0, {}, TRUE)

\* ------------------------------------------------------------ mutex
CanLock(c) == mutex.owner \in {"none", c}
Locked(c) == [owner |-> c, depth |-> mutex.depth + 1]
Unlocked == IF mutex.depth > 1 THEN [mutex EXCEPT !.depth = mutex.depth - 1]
            ELSE [owner |-> "none", depth |-> 0]

\* A context leaves PlayAudioSector or the callback; the control context
\* notes what its PlayAudioSector returned.
Return(c, result) ==
    /\ proc' = [proc EXCEPT ![c] = Idle]
    /\ lastCtl' = IF c = "ctl" THEN result ELSE lastCtl


\* ------------------------------------------------------------ PlayAudioSector
\* "If the request falls in the pregap we deduct the difference from the
\* playback duration": len -= relative_start, on an unsigned len and a
\* negative int.
PregapLen(len, relative_start) ==
    IF relative_start < 0 THEN len - relative_start ELSE len

\* The byte offset handed to TrackFile::seek
SeekOffset(track, relative_start) ==
    track.skip + clamp(relative_start, 0, track.length - 1) * track.sectorSize

\* ------------------------------------------------------------ 64-bit values
\* A uint64_t is held as its eight bytes, lowest first, so that a product
\* wider than 32 bits is computed as the machine computes it: modulo 2^64.
ByteBase == 256
Bytes32 == 4
Bytes64 == 8

\* The bytes of a 32-bit value, zero-extended to width bytes
Widen(v, width) ==
    [i \in 1..width |->
        IF i <= Bytes32 THEN (v \div (ByteBase ^ (i - 1))) % ByteBase ELSE 0]

\* The sum of a[j] * b[i + 1 - j] over j in 1..i
RECURSIVE Column(_, _, _, _)
Column(a, b, i, j) ==
    IF j = 0 THEN 0 ELSE a[j] * b[i + 1 - j] + Column(a, b, i, j - 1)

\* a * b + c in unsigned arithmetic of width bytes, byte by byte with the
\* carry: what does not fit is lost
MulAdd(a, b, c, width) ==
    LET Carried[i \in 1..(width + 1), carry \in Nat] ==
            IF i > width THEN <<>>
            ELSE <<(Column(a, b, i, i) + carry) % ByteBase>>
                   \o Carried[i + 1, (Column(a, b, i, i) + carry) \div ByteBase]
    IN Carried[1, c]

\* a / d for a small divisor d: long division from the highest byte down
DivSmall(a, d) ==
    LET Quotient[i \in 0..Bytes64, rem \in Nat, p \in Seq(Nat)] ==
            IF i = 0 THEN <<>>
            ELSE Quotient[i - 1, (rem * ByteBase + p[i]) % d, p]
                   \o <<(rem * ByteBase + p[i]) \div d>>
    IN Quotient[Len(a), 0, a]

\* The low 32 bits of a wide value, held as the module holds 32-bit values
Low32(a) ==
    a[1] + ByteBase * a[2] + ByteBase ^ 2 * a[3]
      + ByteBase ^ 3 * (IF 2 * a[4] >= ByteBase THEN a[4] - ByteBase ELSE a[4])

\* The conversion of PlayAudioSector with every operand at the given width
FramesAtWidth(track_rate, totalRedbookFrames, width) ==
    Low32(DivSmall(MulAdd(Widen(track_rate, width),
                          Widen(totalRedbookFrames, width),
                          REDBOOK_FRAMES_PER_SECOND - 1, width),
                   REDBOOK_FRAMES_PER_SECOND))

\* a conversion whose numerator is a 32-bit product
TotalTrackFrames_Narrow(track_rate, totalRedbookFrames) ==
    FramesAtWidth(track_rate, totalRedbookFrames, Bytes32)

\* Redbook frames (len) to track PCM frames, rounded up: track_rate is a
\* uint64_t, so the numerator is a 64-bit product.
TotalTrackFrames(track_rate, totalRedbookFrames) ==
    FramesAtWidth(track_rate, totalRedbookFrames, Bytes64)

\* The mixer function for the track's content type
AddFramesFor(f) ==
    IF EndianIsNative(f)
    THEN (IF getChannels(f) = 2 THEN "AddSamples_s16" ELSE "AddSamples_m16")
    ELSE (IF getChannels(f) = 2 THEN "AddSamples_s16_nonnative"
                                ELSE "AddSamples_m16_nonnative")

\* Mutant of PlayRejects: the data-track test is missing.
PlayRejects_NoDataTest(start, len) ==
    \/ len = 0
    \/ GetTrack(start) = NotFound
    \/ tracks[GetTrack(start)].file = NoFile

\* The sanity check that opens PlayAudioSector
PlayRejects(start, len) ==
    \/ len = 0
    \/ GetTrack(start) = NotFound
    \/ tracks[GetTrack(start)].attr = DataAttr
    \/ tracks[GetTrack(start)].file = NoFile

\* PlayAudioSector up to SDL_LockMutex: the sanity check and the seek, each
\* ending in StopAudio and "return false" when it fails.
PlayEnter(c, start, len) ==
    /\ UNCHANGED <<ld, tracks, mutexOk, mutex, ctlDone>>
    /\ IF PlayRejects(start, len)
       THEN /\ player' = Stopped(player)
            /\ chanEnabled' = FALSE
            /\ Return(c, "PlayFalse")
            /\ UNCHANGED files
       ELSE LET i == GetTrack(start)
                track == tracks[i]
                relative_start == start - track.start
                sought == FileSeek(files[track.file], SeekOffset(track, relative_start))
            IN IF ~sought.ok
               THEN /\ player' = Stopped(player)
                    /\ chanEnabled' = FALSE
                    /\ Return(c, "PlayFalse")
                    /\ UNCHANGED files
               ELSE /\ files' = [files EXCEPT ![track.file] = sought.file]
                    /\ proc' = [proc EXCEPT ![c] =
                           [pc |-> "lock", start |-> start, req |-> len,
                            len |-> PregapLen(len, relative_start),
                            track |-> i, desired |-> 0]]
                    /\ lastCtl' = IF c = "ctl" THEN "Play" ELSE lastCtl
                    /\ UNCHANGED <<player, chanEnabled>>

\* SDL_LockMutex(player.mutex) in PlayAudioSector: blocks while the other
\* context owns the mutex; fails when there is no mutex.
PlayLock(c) ==
    /\ proc[c].pc = "lock"
    /\ IF ~mutexOk
       THEN /\ player' = Stopped(player)
            /\ chanEnabled' = FALSE
            /\ Return(c, "PlayFalse")
            /\ UNCHANGED <<ld, tracks, files, mutexOk, mutex, ctlDone>>
       ELSE /\ CanLock(c)
            /\ mutex' = Locked(c)
            /\ proc' = [proc EXCEPT ![c].pc = "commit"]
            /\ UNCHANGED <<ld, tracks, files, player, chanEnabled, mutexOk,
                           lastCtl, ctlDone>>

\* Mutant of Recorded: the played-frame counter is not zeroed.
Recorded_KeepsCount(p, start, len, trackFile) ==
    [p EXCEPT !.cd = ThisCd,
              !.trackFile = trackFile,
              !.startSector = start,
              !.totalRedbookFrames = len,
              !.isPlaying = TRUE,
              !.isPaused = FALSE,
              !.addFrames = AddFramesFor(trackFile),
              !.totalTrackFrames = TotalTrackFrames(getRate(trackFile), len)]

\* The player's fields as PlayAudioSector records them under the lock
Recorded(p, start, len, trackFile) ==
    [p EXCEPT !.cd = ThisCd,
              !.trackFile = trackFile,
              !.startSector = start,
              !.totalRedbookFrames = len,
              !.isPlaying = TRUE,
              !.isPaused = FALSE,
              !.addFrames = AddFramesFor(trackFile),
              !.playedTrackFrames = 0,
              !.totalTrackFrames = TotalTrackFrames(getRate(trackFile), len)]

\* PlayAudioSector under the lock: record the session, start the channel,
\* unlock, "return true".
PlayCommit(c) ==
    /\ proc[c].pc = "commit"
    /\ player' = Recorded(player, proc[c].start, proc[c].len,
                          tracks[proc[c].track].file)
    /\ chanEnabled' = TRUE
    /\ mutex' = Unlocked
    /\ Return(c, "PlayTrue")
    /\ UNCHANGED <<ld, tracks, files, mutexOk, ctlDone>>

\* ------------------------------------------------------------ control context
CtlPlay(start, len) ==
    /\ proc["ctl"].pc = "idle"
    /\ ~ctlDone
    /\ PlayEnter("ctl", start, len)

PauseAudio(resume) ==
    /\ proc["ctl"].pc = "idle"
    /\ ~ctlDone
    /\ player' = Paused(player, resume)
    /\ chanEnabled' = resume
    /\ lastCtl' = "Pause"
    /\ UNCHANGED <<ld, tracks, files, mutexOk, mutex, proc, ctlDone>>

StopAudio ==
    /\ proc["ctl"].pc = "idle"
    /\ ~ctlDone
    /\ player' = Stopped(player)
    /\ chanEnabled' = FALSE
    /\ lastCtl' = "Stop"
    /\ UNCHANGED <<ld, tracks, files, mutexOk, mutex, proc, ctlDone>>

\* The host stops issuing commands.
CtlQuit ==
    /\ proc["ctl"].pc = "idle"
    /\ ~ctlDone
    /\ ctlDone' = TRUE
    /\ UNCHANGED <<ld, tracks, files, player, chanEnabled, mutexOk, mutex, proc, lastCtl>>

\* ------------------------------------------------------------ fill callback
\* The mixer calls the handler of an enabled channel.  The guards that open
\* CDAudioCallBack return at once.
CallBackEnter(desired_track_frames) ==
    /\ proc["cb"].pc = "idle"
    /\ chanEnabled
    /\ IF \/ desired_track_frames = 0
          \/ player.trackFile = NoFile
          \/ player.cd = NoCd
       THEN UNCHANGED vars
       ELSE /\ proc' = [proc EXCEPT !["cb"] =
                   [Idle EXCEPT !.pc = "cblock", !.desired = desired_track_frames]]
            /\ UNCHANGED <<ld, tracks, files, player, chanEnabled, mutexOk, mutex,
                           lastCtl, ctlDone>>

\* SDL_LockMutex(player.mutex) in CDAudioCallBack: a failure only returns.
CallBackLock ==
    /\ proc["cb"].pc = "cblock"
    /\ IF ~mutexOk
       THEN /\ Return("cb", "none")
            /\ UNCHANGED <<ld, tracks, files, player, chanEnabled, mutexOk, mutex, ctlDone>>
       ELSE /\ CanLock("cb")
            /\ mutex' = Locked("cb")
            /\ proc' = [proc EXCEPT !["cb"].pc = "decode"]
            /\ UNCHANGED <<ld, tracks, files, player, chanEnabled, mutexOk,
                           lastCtl, ctlDone>>

\* Redbook sectors already consumed when the track has run dry:
\* ceil(playedTrackFrames / totalTrackFrames * totalRedbookFrames)
PlayedRedbookFrames(p) ==
    CeilDiv(p.playedTrackFrames * p.totalRedbookFrames, p.totalTrackFrames)

\* Mutant of ReachedEnd: the comparison is strict.
ReachedEnd_Strict(p) == p.playedTrackFrames > p.totalTrackFrames

\* "playedTrackFrames >= totalTrackFrames": the requested range is played
ReachedEnd(p) == p.playedTrackFrames >= p.totalTrackFrames

\* Mutant of ContinueUnlock: the callback keeps the mutex across the call.
ContinueUnlock_Keeps == mutex

\* The mutex after the callback's "track has run dry" branch, just before it
\* calls PlayAudioSector
ContinueUnlock == Unlocked

\* CDAudioCallBack under the lock: decode, count, then stop, continue into
\* PlayAudioSector (unlocked first), or just unlock and return.
CallBackDecode ==
    /\ proc["cb"].pc = "decode"
    /\ LET f == player.trackFile
           got == FileDecode(files[f], FileLength[f], proc["cb"].desired)
           p == [player EXCEPT !.playedTrackFrames = @ + got.frames]
       IN /\ files' = [files EXCEPT ![f] = got.file]
          /\ IF ReachedEnd(p)
             THEN /\ player' = Stopped(p)
                  /\ chanEnabled' = FALSE
                  /\ mutex' = Unlocked
                  /\ Return("cb", "none")
             ELSE IF got.frames = 0
             THEN /\ player' = p
                  /\ mutex' = ContinueUnlock
                  /\ proc' = [proc EXCEPT !["cb"] =
                         [Idle EXCEPT !.pc = "continue",
                                      !.start = p.startSector + PlayedRedbookFrames(p),
                                      !.len = p.totalRedbookFrames - PlayedRedbookFrames(p)]]
                  /\ UNCHANGED <<chanEnabled, lastCtl>>
             ELSE /\ player' = p
                  /\ mutex' = Unlocked
                  /\ Return("cb", "none")
                  /\ UNCHANGED chanEnabled
    /\ UNCHANGED <<ld, tracks, mutexOk, ctlDone>>

\* player.cd->PlayAudioSector(new_redbook_start_frame, remaining_redbook_frames)
CallBackContinue ==
    /\ proc["cb"].pc = "continue"
    /\ PlayEnter("cb", proc["cb"].start, proc["cb"].len)

\* ------------------------------------------------------------ specification
FillRequests == {n * (BYTES_PER_RAW_REDBOOK_FRAME \div BYTES_PER_REDBOOK_PCM_FRAME) :
                     n \in 0..MaxFillSectors}

Fill == \E n \in FillRequests \ {0} : CallBackEnter(n)

CallBackStep ==
    \/ \E n \in FillRequests : CallBackEnter(n)
    \/ CallBackLock
    \/ CallBackDecode
    \/ CallBackContinue
    \/ PlayLock("cb")
    \/ PlayCommit("cb")

ControlStep ==
    \/ \E start \in 0..MaxPlayStart, len \in 0..MaxPlayLen : CtlPlay(start, len)
    \/ \E resume \in BOOLEAN : PauseAudio(resume)
    \/ StopAudio
    \/ PlayLock("ctl")
    \/ PlayCommit("ctl")
    \/ CtlQuit

Next == ControlStep \/ CallBackStep

Spec == Init /\ [][Next]_vars

\* The mixer keeps calling an enabled channel's handler with a positive
\* request, and a context that can run does run.
LiveSpec ==
    /\ Init /\ [][Next]_vars
    /\ WF_vars(Fill)
    /\ WF_vars(CallBackLock)
    /\ WF_vars(CallBackDecode)
    /\ WF_vars(CallBackContinue)
    /\ WF_vars(PlayLock("cb"))
    /\ WF_vars(PlayCommit("cb"))
    /\ WF_vars(PlayLock("ctl"))
    /\ WF_vars(PlayCommit("ctl"))

\* SDL_LockMutex starts to return an error (the mutex is not held at that
\* moment): from here on no lock is acquired.
MutexLost ==
    /\ mutexOk
    /\ mutex.owner = "none"
    /\ mutexOk' = FALSE
    /\ UNCHANGED <<ld, tracks, files, player, chanEnabled, mutex, proc, lastCtl,
                   ctlDone>>

LockNext == Next \/ MutexLost

\* The engine with a lock that can fail at any time
LockSpec == Init /\ [][LockNext]_vars

TypeOK ==
    /\ player.isPlaying \in BOOLEAN /\ player.isPaused \in BOOLEAN
    /\ chanEnabled \in BOOLEAN
    /\ mutex.owner \in {"none", "ctl", "cb"}
    /\ lastCtl \in {"none", "Play", "PlayTrue", "PlayFalse", "Pause", "Stop",
                    "ReadTrue", "ReadFalse", "SubTrue", "SubFault"}
    /\ \A c \in Contexts :
          proc[c].pc \in {"idle", "lock", "commit", "cblock", "decode", "continue"}

\* ------------------------------------------------------------ SetDevice
engineVars ==
    <<files, player, chanEnabled, mutexOk, mutex, proc, lastCtl, ctlDone>>

\* The inputs a cue sheet's lines are drawn from
CueNumbers == 1..MaxCueNumber
CueTypes == {"AUDIO", "MODE1/2048", "MODE3/2048"}
CueFiles == {"A", "B"}
CueIndexes == {0, 1, 2}
CueFrames == 0..MaxCueFrame
CuePregaps == 0..MaxCuePregap

\* SetDevice leaves the loop of LoadCueSheet with pc: the locals are gone.
Leave(pc) == LoadState(pc, LoadLocals, 0, {}, ld.asserts)

\* After one line of the sheet: res is AddTrack's result, or "ok" when the
\* line did not call it, success what the line's own parse set.
CueLineDone(res, success, t, loc, opened) ==
    /\ tracks' = t
    /\ ld' = IF res = "abort" THEN Leave("aborted")
             ELSE IF res = "fail" \/ ~success THEN Leave("iso")
             ELSE LoadState("cue", loc, ld.lines + 1, opened, ld.asserts)
    /\ UNCHANGED engineVars

\* AddTrack on LoadCueSheet's locals, when a track is pending
AddPending ==
    IF ld.loc.canAddTrack
    THEN AddTrack(tracks, ld.loc.track, ld.loc.shift, ld.loc.prestart,
                  ld.loc.totalPregap, ld.loc.currPregap, ld.asserts)
    ELSE AddResult("ok", tracks, ld.loc.track, ld.loc.shift, ld.loc.totalPregap)

\* SetDevice is called: LoadCueSheet clears the table and opens the sheet.
SetDeviceBegin(opens) ==
    /\ ld.pc = "idle"
    /\ tracks' = <<>>
    /\ ld' = IF opens THEN LoadState("cue", LoadLocals, 0, {}, ld.asserts)
                      ELSE Leave("iso")
    /\ UNCHANGED engineVars

InCue == ld.pc = "cue" /\ ld.lines < MaxCueLines

\* TRACK <number> <type>
CueTrack(number, type) ==
    /\ InCue
    /\ LET a == AddPending
           known == TrackSectorSize(type) # 0
           track == [a.curr EXCEPT
                       !.start = 0, !.skip = 0, !.number = number,
                       !.sectorSize = IF known THEN TrackSectorSize(type) ELSE @,
                       !.attr = IF known THEN TrackAttr(type) ELSE @,
                       !.mode2 = IF known THEN TrackMode2(type) ELSE @]
       IN CueLineDone(a.res, known, a.tracks,
                      [track |-> track, shift |-> a.shift, currPregap |-> 0,
                       totalPregap |-> a.totalPregap, prestart |-> -1,
                       canAddTrack |-> TRUE],
                      ld.opened)

\* INDEX <index> <mm:ss:ff>
CueIndex(index, frame) ==
    /\ InCue
    /\ CueLineDone("ok", TRUE, tracks,
                   [ld.loc EXCEPT
                      !.track.start = IF index = 1 THEN frame ELSE @,
                      !.prestart = IF index = 0 THEN frame ELSE @],
                   ld.opened)

\* FILE <name> BINARY: every FILE line makes a BinaryFile object of its own.
CueFile(f, error) ==
    /\ InCue
    /\ f \notin ld.opened
    /\ LET a == AddPending
       IN CueLineDone(a.res, ~error, a.tracks,
                      [ld.loc EXCEPT !.track = [a.curr EXCEPT !.file = f],
                                     !.shift = a.shift,
                                     !.totalPregap = a.totalPregap,
                                     !.canAddTrack = FALSE],
                      ld.opened \cup {f})

\* PREGAP <mm:ss:ff>
CuePregap(frame) ==
    /\ InCue
    /\ CueLineDone("ok", TRUE, tracks, [ld.loc EXCEPT !.currPregap = frame],
                   ld.opened)

\* CATALOG and the ignored commands (known), or a line LoadCueSheet cannot
\* read: an unknown command, a frame that is no mm:ss:ff.
CueOther(known) ==
    /\ InCue
    /\ CueLineDone("ok", known, tracks, ld.loc, ld.opened)

\* The end of the sheet: "add last track", then "add lead-out track".
CueEnd ==
    /\ ld.pc = "cue"
    /\ LET a == AddTrack(tracks, ld.loc.track, ld.loc.shift, ld.loc.prestart,
                         ld.loc.totalPregap, ld.loc.currPregap, ld.asserts)
           leadout == [a.curr EXCEPT !.number = @ + 1, !.attr = 0, !.start = 0,
                                     !.length = 0, !.file = NoFile]
           b == AddTrack(a.tracks, leadout, a.shift, -1, a.totalPregap, 0,
                         ld.asserts)
       IN /\ tracks' = IF a.res = "ok" THEN b.tracks ELSE a.tracks
          /\ ld' = IF a.res = "abort" \/ (a.res = "ok" /\ b.res = "abort")
                   THEN Leave("aborted")
                   ELSE IF a.res = "ok" /\ b.res = "ok" THEN Leave("loaded")
                   ELSE Leave("iso")
    /\ UNCHANGED engineVars

\* The geometries LoadIsoFile tries, in its order
IsoGeometries ==
    << [sectorSize |-> BYTES_PER_COOKED_REDBOOK_FRAME, mode2 |-> FALSE],
       [sectorSize |-> BYTES_PER_RAW_REDBOOK_FRAME, mode2 |-> FALSE],
       [sectorSize |-> 2336, mode2 |-> TRUE],
       [sectorSize |-> BYTES_PER_RAW_REDBOOK_FRAME, mode2 |-> TRUE] >>

\* CanReadPVD's seek: the first volume descriptor is in sector 16
PvdSeek(sectorSize, mode2) ==
    16 * sectorSize
      + (IF sectorSize = BYTES_PER_RAW_REDBOOK_FRAME /\ ~mode2 THEN 16 ELSE 0)
      + (IF mode2 THEN 24 ELSE 0)

\* The bytes istream::read stores in the buffer (its gcount)
Delivered(f, length, seek, count) ==
    IF f.fail \/ seek < 0 THEN 0 ELSE Max(0, Min(count, length - seek))

\* The leading bytes of pvd[] that CanReadPVD's test of an identifier reads
IdBytes(id) == IF id = "CD001" THEN 7 ELSE 15

\* CanReadPVD(file, sectorSize, mode2) on image name, whose stream is f: the
\* result of file->read is not looked at, the zeroed buffer is compared.
CanReadPVD(f, name, g) ==
    LET seek == PvdSeek(IsoGeometries[g].sectorSize, IsoGeometries[g].mode2)
        r == FileRead(f, FileLength[name], seek, BYTES_PER_COOKED_REDBOOK_FRAME)
        got == Delivered(f, FileLength[name], seek, BYTES_PER_COOKED_REDBOOK_FRAME)
    IN [match |-> g \in ImagePvd(name) /\ got >= IdBytes(ImageId(name)),
        file |-> r.file]

\* "try to detect iso type": the first geometry whose probe matches, 0 if none
RECURSIVE Sniff(_, _, _)
Sniff(f, name, g) ==
    IF g > Len(IsoGeometries) THEN [found |-> 0, file |-> f]
    ELSE LET r == CanReadPVD(f, name, g)
         IN IF r.match THEN [found |-> g, file |-> r.file]
                       ELSE Sniff(r.file, name, g + 1)

\* BinaryFile::getLength: seekg(0, end) and tellg, which is -1 on a stream
\* whose failbit is set
getLength(f, length) ==
    IF f.fail THEN [length |-> -1, file |-> f]
              ELSE [length |-> length, file |-> [f EXCEPT !.pos = length]]

\* a LoadIsoFile that keeps what LoadCueSheet had built
IsoCleared_Keeps(t) == t

\* LoadIsoFile's first statement
IsoCleared(t) == <<>>

\* LoadIsoFile, after LoadCueSheet returned false: name is the image, error
\* what BinaryFile's constructor reports.  The BinaryFile is a new object, its
\* stream at the start; when the load fails the object is dropped.
LoadIsoFile(name, error) ==
    /\ ld.pc = "iso"
    /\ LET s == Sniff([pos |-> 0, fail |-> FALSE], name, 1)
       IN IF error \/ s.found = 0
          THEN /\ tracks' = IsoCleared(tracks)
               /\ ld' = Leave("failed")
               /\ UNCHANGED files
          ELSE LET l == getLength(s.file, FileLength[name])
                   track == [DefaultTrack EXCEPT
                               !.file = name, !.number = 1, !.attr = DataAttr,
                               !.sectorSize = IsoGeometries[s.found].sectorSize,
                               !.mode2 = IsoGeometries[s.found].mode2,
                               !.length = TDiv(l.length,
                                               IsoGeometries[s.found].sectorSize)]
                   leadout == [DefaultTrack EXCEPT !.number = 2,
                                                   !.start = track.length]
               IN /\ tracks' = IsoCleared(tracks) \o <<track, leadout>>
                  /\ files' = [files EXCEPT ![name] = l.file]
                  /\ ld' = Leave("loaded")
    /\ UNCHANGED <<player, chanEnabled, mutexOk, mutex, proc, lastCtl, ctlDone>>

LoadStep ==
    \/ \E opens \in BOOLEAN : SetDeviceBegin(opens)
    \/ \E number \in CueNumbers, type \in CueTypes : CueTrack(number, type)
    \/ \E index \in CueIndexes, frame \in CueFrames : CueIndex(index, frame)
    \/ \E f \in CueFiles, error \in BOOLEAN : CueFile(f, error)
    \/ \E frame \in CuePregaps : CuePregap(frame)
    \/ \E known \in BOOLEAN : CueOther(known)
    \/ CueEnd
    \/ \E name \in ImageNames, error \in BOOLEAN : LoadIsoFile(name, error)

\* A constructed drive on which SetDevice has not been called
LoadInit ==
    /\ tracks = <<>>
    /\ files = [f \in DOMAIN FileLength |-> [pos |-> 0, fail |-> FALSE]]
    /\ player = InitPlayer
    /\ chanEnabled = FALSE
    /\ mutexOk = TRUE
    /\ mutex = [owner |-> "none", depth |-> 0]
    /\ proc = [c \in Contexts |-> Idle]
    /\ lastCtl = "none"
    /\ ctlDone = FALSE
    /\ ld \in {LoadState("idle", LoadLocals, 0, {}, a) : a \in BOOLEAN}

\* Whether SetDevice has returned, and what
Loaded == ld.pc = "loaded"
LoadFailed == ld.pc = "failed"

\* A requested sector is hi * 2^32 + lo; GetTrack's parameter is a uint32_t,
\* so PlayAudioSector (uint64_t start) and ReadSector (unsigned long sector)
\* hand it the low 32 bits, and their own differences with track->start are
\* stored in an int: the low 32 bits again.
Sector32(hi, lo) == lo

LoadSectors == -1..MaxLoadSector

\* ReadSector's byte offset into the track's file
ReadSeek(track, raw, sector) ==
    track.skip + (sector - track.start) * track.sectorSize
      + (IF track.sectorSize = BYTES_PER_RAW_REDBOOK_FRAME /\ ~track.mode2 /\ ~raw
         THEN 16 ELSE 0)
      + (IF track.mode2 /\ ~raw THEN 24 ELSE 0)

\* ReadSector: its result (ok) and the file it read (f, its stream after)
ReadResult(raw, sector) ==
    LET i == GetTrack(sector)
        none == [ok |-> FALSE, f |-> NoFile, file |-> [pos |-> 0, fail |-> FALSE]]
    IN IF i = NotFound THEN none
       ELSE IF tracks[i].file = NoFile THEN none
       ELSE IF tracks[i].sectorSize # BYTES_PER_RAW_REDBOOK_FRAME /\ raw THEN none
       ELSE LET r == FileRead(files[tracks[i].file], FileLength[tracks[i].file],
                              ReadSeek(tracks[i], raw, sector),
                              IF raw THEN BYTES_PER_RAW_REDBOOK_FRAME
                                     ELSE BYTES_PER_COOKED_REDBOOK_FRAME)
            IN [ok |-> r.ok, f |-> tracks[i].file, file |-> r.file]

\* The first request on a loaded table: ReadSector(buffer, raw, sector)
ReadSector(raw, hi, lo) ==
    /\ Loaded /\ lastCtl = "none"
    /\ LET r == ReadResult(raw, Sector32(hi, lo))
       IN /\ files' = IF r.f = NoFile THEN files ELSE [files EXCEPT ![r.f] = r.file]
          /\ lastCtl' = IF r.ok THEN "ReadTrue" ELSE "ReadFalse"
    /\ UNCHANGED <<ld, tracks, player, chanEnabled, mutexOk, mutex, proc, ctlDone>>

\* The first request on a loaded table: PlayAudioSector(start, len)
LoadedPlay(hi, lo, len) ==
    /\ Loaded /\ lastCtl = "none"
    /\ CtlPlay(Sector32(hi, lo), len)

LoadedStep ==
    \/ \E raw \in BOOLEAN, hi \in 0..MaxHigh, lo \in LoadSectors :
          ReadSector(raw, hi, lo)
    \/ \E hi \in 0..MaxHigh, lo \in LoadSectors, len \in 0..MaxLoadLen :
          LoadedPlay(hi, lo, len)
    \/ PlayLock("ctl")
    \/ PlayCommit("ctl")

LoadNext == LoadStep \/ LoadedStep

LoadSpec == LoadInit /\ [][LoadNext]_vars

\* ------------------------------------------------------------ reload
\* SetDevice is called again on the image a playback session uses.  SetDevice
\* runs in the host's context and takes no lock, so each of its steps
\* interleaves with the fill callback's.
ReloadStarts == {2, 3}
ReloadLens == {2}

Loading == ld.pc \in {"idle", "cue", "iso"}

SetDeviceAgain ==
    /\ ~Loading
    /\ proc["ctl"].pc = "idle"
    /\ ld' = LoadState("idle", LoadLocals, 0, {}, ld.asserts)
    /\ UNCHANGED tracks
    /\ UNCHANGED engineVars

ReloadControl ==
    \/ /\ ~Loading
       /\ \E start \in ReloadStarts, len \in ReloadLens : CtlPlay(start, len)
    \/ PlayLock("ctl")
    \/ PlayCommit("ctl")

\* The sheets and images the reload reads: FILE, TRACK <n> AUDIO and unknown
\* lines, at most MaxReloadLines of them.
ReloadStep ==
    \/ \E opens \in BOOLEAN : SetDeviceBegin(opens)
    \/ /\ ld.lines < MaxReloadLines
       /\ \/ \E number \in CueNumbers : CueTrack(number, "AUDIO")
          \/ \E f \in CueFiles : CueFile(f, FALSE)
          \/ CueOther(FALSE)
    \/ CueEnd
    \/ \E name \in {"I1", "I5"} : LoadIsoFile(name, FALSE)

ReloadNext == SetDeviceAgain \/ ReloadStep \/ ReloadControl \/ CallBackStep

ReloadSpec == Init /\ [][ReloadNext]_vars

\* ------------------------------------------------------------ rate conversion
\* PlayAudioSector on sources of every rate, for lengths up to the largest
\* disc address: the session's frame total is TotalTrackFrames of
\* trackFile->getRate() and the recorded length.
SourceRates == {8000, 11025, 22050, 32000, 44100, 48000, 96000, 192000}
RateLens ==
    {1, 2, 74, 75, 76, 7500, 97391, 97392, 194783, 300000,
     MAX_REDBOOK_SECTOR - 1, MAX_REDBOOK_SECTOR}
RateStarts == {2, 3}

RateCommit(track_rate) ==
    /\ proc["ctl"].pc = "commit"
    /\ player' = [Recorded(player, proc["ctl"].start, proc["ctl"].len,
                           tracks[proc["ctl"].track].file)
                    EXCEPT !.totalTrackFrames =
                              TotalTrackFrames(track_rate, proc["ctl"].len)]
    /\ chanEnabled' = TRUE
    /\ mutex' = Unlocked
    /\ Return("ctl", "PlayTrue")
    /\ UNCHANGED <<ld, tracks, files, mutexOk, ctlDone>>

\* The first request on the disc
RatePlay(start, len) ==
    /\ lastCtl = "none"
    /\ CtlPlay(start, len)

RateNext ==
    \/ \E start \in RateStarts, len \in RateLens : RatePlay(start, len)
    \/ PlayLock("ctl")
    \/ \E track_rate \in SourceRates : RateCommit(track_rate)

RateSpec == Init /\ [][RateNext]_vars

\* ------------------------------------------------------------ the engine's states
EngineStopped == ~player.isPlaying /\ ~player.isPaused /\ ~chanEnabled
EngineStoppedNext == ~player'.isPlaying /\ ~player'.isPaused /\ ~chanEnabled'

\* A step of context c that writes a field of the player
Writes(c) ==
    /\ player' # player
    /\ IF c = "ctl" THEN ControlStep ELSE CallBackStep

\* ------------------------------------------------------------ claims

\* C1: every write of a player field (trackFile, cd, startSector,
\* totalRedbookFrames, playedTrackFrames, totalTrackFrames, isPlaying,
\* isPaused, addFrames) by a context happens while that context holds the
\* player mutex.
C1_AccessUnderMutex ==
    [][\A c \in Contexts : Writes(c) => mutex.owner = c]_vars

\* C2: once StopAudio has returned in the control context and the control
\* context has issued nothing since, the engine is Stopped: no step of the
\* fill callback makes it play again.
C2_StopIsFinal ==
    lastCtl = "Stop" => (~player.isPlaying /\ ~chanEnabled)

\* C3: every continuation Play the fill callback issues asks for strictly
\* fewer sectors than the session it continues holds, or starts at or past
\* the lead-out, where the lookup fails.
C3_ContinuationShrinks ==
    [][(CallBackDecode /\ proc'["cb"].pc = "continue")
          => \/ proc'["cb"].len < player.totalRedbookFrames
             \/ GetTrack(proc'["cb"].start) = NotFound]_vars

\* C3, the conclusion alone (checked under LiveSpec): once the host issues no
\* further command, a playing engine whose callback is being called reaches
\* Stopped.
C3_Terminates ==
    (ctlDone /\ player.isPlaying /\ chanEnabled) ~> ~player.isPlaying

\* C4: the fill callback does not hold the player mutex when it re-enters
\* PlayAudioSector for a continuation, nor after it has returned: it owns the
\* mutex only inside the two locked sections, each of which releases it.
C4_CallBackReleasesMutex ==
    /\ proc["cb"].pc \in {"idle", "cblock", "continue", "lock"} => mutex.owner # "cb"
    /\ mutex.owner = "cb" => (ENABLED CallBackDecode \/ ENABLED PlayCommit("cb"))

C4_Witness ==
    /\ proc["cb"].pc = "continue"
    /\ proc["ctl"].pc = "lock"
    /\ mutex.owner = "none"

\* The conditions under which a Play request must fail: the length is 0, the
\* lookup finds no track, the track is a data track or has no source, or the
\* source cannot be sought.
PlayMustFail(start, len) ==
    \/ len = 0
    \/ GetTrack(start) = NotFound
    \/ \E i \in 1..Len(tracks) :
          /\ i = GetTrack(start)
          /\ \/ tracks[i].attr = DataAttr
             \/ tracks[i].file = NoFile
             \/ files[tracks[i].file].fail

\* C5: a Play request that must fail returns false at once and leaves the
\* engine Stopped, whatever state it was in, whether the control context or
\* the callback's continuation issued it.  For the control context, whose
\* request is kept only while PlayAudioSector runs: a request that must fail
\* is never carried on to the lock, and every step in which PlayAudioSector
\* returns false leaves the engine Stopped.
C5_FailedPlayStops ==
    [][/\ (proc["ctl"].pc = "idle" /\ proc'["ctl"].pc = "lock")
             => ~PlayMustFail(proc'["ctl"].start, proc'["ctl"].req)
       /\ \/ EngineStoppedNext
          \/ ~(/\ proc["ctl"].pc \in {"idle", "lock"}
               /\ proc'["ctl"].pc = "idle"
               /\ lastCtl' = "PlayFalse"
               /\ \/ PlayLock("ctl")
                  \/ \E start \in 0..MaxPlayStart, len \in 0..MaxPlayLen :
                        CtlPlay(start, len))
       /\ (proc["cb"].pc = "continue"
              /\ PlayMustFail(proc["cb"].start, proc["cb"].len)
              /\ CallBackContinue)
             => (EngineStoppedNext /\ proc'["cb"].pc = "idle")]_vars

\* A failed control Play has stopped an engine that held a session whose
\* source had run dry.
C5_Witness ==
    /\ lastCtl = "PlayFalse"
    /\ player.trackFile # NoFile
    /\ player.totalTrackFrames > player.playedTrackFrames
    /\ EngineStopped

\* C6: the step in which a Play request returns success leaves the engine
\* Playing, not paused, output enabled, no frame counted, and the session on
\* the requested start sector and on the source of the track owning it.
C6_PlaySuccess ==
    [][\A c \in Contexts :
          PlayCommit(c) =>
             /\ player'.isPlaying /\ ~player'.isPaused /\ chanEnabled'
             /\ player'.playedTrackFrames = 0
             /\ player'.startSector = proc[c].start
             /\ GetTrack(proc[c].start) # NotFound
             /\ player'.trackFile = tracks[GetTrack(proc[c].start)].file
             /\ proc'[c].pc = "idle"]_vars

\* A control Play returned success over a session that had counted frames
\* and was paused.
C6_Witness ==
    /\ lastCtl = "PlayTrue"
    /\ player.isPlaying /\ ~player.isPaused /\ chanEnabled
    /\ player.playedTrackFrames = 0
    /\ player.startSector = 5 /\ player.trackFile = "C"
    /\ files["B"].pos > 0

\* C7: StopAudio drops the session: after it the flags are clear, output is
\* disabled and the player references no source.
C7_StopDropsSession ==
    [][StopAudio => (EngineStoppedNext /\ player'.trackFile = NoFile)]_vars

\* C8: PauseAudio changes only the paused flag and the output-enabled state.
C8_PauseFrame ==
    [][\A resume \in BOOLEAN :
          PauseAudio(resume) =>
             /\ player'.isPaused = ~resume /\ chanEnabled' = resume
             /\ [player' EXCEPT !.isPaused = player.isPaused] = player
             /\ UNCHANGED <<tracks, files, mutex>>]_vars

\* A session under way has been paused.
C8_Witness ==
    /\ lastCtl = "Pause"
    /\ player.isPlaying /\ player.isPaused /\ ~chanEnabled
    /\ player.playedTrackFrames > 0

\* C9: a fill callback that leaves playedTrackFrames >= totalTrackFrames has
\* stopped the engine when it returns, and issues no continuation Play.
C9_EndOfRangeStops ==
    [][(CallBackDecode /\ player'.playedTrackFrames >= player'.totalTrackFrames)
          => (EngineStoppedNext /\ proc'["cb"].pc = "idle"
                 /\ mutex'.owner # "cb")]_vars

\* The callback has counted the last frame of a session and stopped it.
C9_Witness ==
    /\ player.totalTrackFrames > 0
    /\ player.playedTrackFrames >= player.totalTrackFrames
    /\ EngineStopped
    /\ proc["cb"].pc = "idle"
    /\ lastCtl = "PlayTrue"

\* C10: a Play(start, len) that lands in a track's pregap records
\* len - (track.start - start) as the session's requested length.
C10_PregapShortens ==
    [][\A c \in Contexts :
          (PlayCommit(c) /\ proc[c].start < tracks[proc[c].track].start)
             => player'.totalRedbookFrames
                   = proc[c].req - (tracks[proc[c].track].start - proc[c].start)]_vars


\* ------------------------------------------------------------ tables SetDevice builds

\* The step in which a control Play passes the sanity check and seeks
PlaySeeks == proc["ctl"].pc = "idle" /\ proc'["ctl"].pc = "lock"

\* C11: whenever a Play passes validation on a table a load built, the byte
\* offset it seeks to is at least the track's skip and at most
\* skip + (length - 1) * sectorSize (length as the unsigned value it is).
C11_SeekInBody ==
    [][PlaySeeks =>
         LET track == tracks[proc'["ctl"].track]
             offset == files'[track.file].pos
         IN /\ offset >= track.skip
            /\ \/ track.length < 0
               \/ offset <= track.skip + (track.length - 1) * track.sectorSize]_vars


\* A step in which context c's SDL_LockMutex returns an error
LockFails(c) ==
    /\ ~mutexOk
    /\ proc[c].pc \in {"lock", "cblock"}
    /\ proc'[c] # proc[c]

\* C12: a failed lock acquisition, in PlayAudioSector or in the callback, ends
\* the operation with the engine Stopped and the channel disabled.
C12_LockFailureStops ==
    [][\A c \in Contexts :
          LockFails(c) => (EngineStoppedNext /\ proc'[c].pc = "idle")]_vars


\* a + b <= c for the unsigned values that a, b and c hold, the sum taken
\* without wrap-around
USumLe(a, b, c) ==
    CASE a >= 0 /\ b >= 0 -> (c < 0 \/ a + b <= c)
      [] a < 0 /\ b < 0 -> FALSE
      [] OTHER -> (c < 0 /\ a + b <= c)

\* Adjacent tracks i, i+1 of the table are in order and do not overlap.
Contiguous(i) ==
    /\ ULe(tracks[i].start, tracks[i + 1].start)
    /\ USumLe(tracks[i].start, tracks[i].length, tracks[i + 1].start)

\* C13: in every table a load has built, tracks are in ascending start order
\* and track[i].start + track[i].length <= track[i+1].start for all adjacent
\* tracks.
C13_Ascending == Loaded => \A i \in 1..(Len(tracks) - 1) : Contiguous(i)


\* C14: in every table a load has built the track numbers, the lead-out's
\* included, are 1, 2, ..., N in table order, so no load of a sheet whose
\* tracks are misnumbered or do not start at 1 succeeds.
C14_Numbered == Loaded => \A i \in 1..Len(tracks) : tracks[i].number = i


\* The lead-out's start in the loaded table
LeadOutStart == tracks[Len(tracks)].start

\* C15: on every table a load has built, GetTrack resolves every sector below
\* the lead-out's start to a real track: neither to the lead-out nor to
\* "not found".
C15_SectorsResolve ==
    Loaded => \A s \in 0..MaxLoadSector :
                 ULt(s, LeadOutStart) => GetTrack(s) \in 1..(Len(tracks) - 1)


\* The 64-bit sector hi * 2^32 + lo lies at or beyond the lead-out's start
BeyondLeadOut(hi, lo) ==
    Len(tracks) >= 1 /\ (hi > 0 \/ ULe(LeadOutStart, lo))

\* C16: for every requested sector at or beyond the lead-out's start, wider
\* than 32 bits included, the lookup finds no track, PlayAudioSector returns
\* false and ReadSector returns false.
C16_BeyondLeadOutFails ==
    [][\A hi \in 0..MaxHigh, lo \in LoadSectors :
          BeyondLeadOut(hi, lo) =>
             /\ Loaded => GetTrack(Sector32(hi, lo)) = NotFound
             /\ \A len \in 0..MaxLoadLen :
                   LoadedPlay(hi, lo, len) => lastCtl' = "PlayFalse"
             /\ \A raw \in BOOLEAN :
                   ReadSector(raw, hi, lo) => lastCtl' = "ReadFalse"]_vars

\* the same for the sectors that fit 32 bits
C16_Low ==
    [][\A lo \in LoadSectors :
          BeyondLeadOut(0, lo) =>
             /\ Loaded => GetTrack(Sector32(0, lo)) = NotFound
             /\ \A len \in 0..MaxLoadLen :
                   LoadedPlay(0, lo, len) => lastCtl' = "PlayFalse"
             /\ \A raw \in BOOLEAN :
                   ReadSector(raw, 0, lo) => lastCtl' = "ReadFalse"]_vars


\* C17: once SetDevice has returned false the track table holds fewer than
\* MIN_REDBOOK_TRACKS entries, whatever LoadCueSheet had built before it failed.
C17_FailedLoadKeepsNothing == LoadFailed => Len(tracks) < MIN_REDBOOK_TRACKS

\* a load has failed and left the table short
C17_Witness == LoadFailed /\ Len(tracks) < MIN_REDBOOK_TRACKS

\* LoadCueSheet has failed on a sheet from which it had added two tracks
PartialTable == ld.pc = "iso" /\ Len(tracks) >= MIN_REDBOOK_TRACKS


\* the fill callback's continuation calls PlayAudioSector, which looks the
\* start sector up in the table
ContinuationLooksUp == proc["cb"].pc = "continue" /\ proc'["cb"] # proc["cb"]

\* LoadCueSheet or LoadIsoFile has cleared the table and not yet returned
TableInPieces == ld.pc \in {"cue", "iso"}

\* C18: during a reload no lookup of a playback session reads the table while
\* it is cleared or partially built.
C18_LookupSeesWholeTable == [][ContinuationLooksUp => ~TableInPieces]_vars


\* A cue line makes AddTrack push the sheet's second track.
AddsSecond == ld.pc = "cue" /\ Len(tracks) = 1 /\ Len(tracks') >= 2

\* AddTrack's skip for the pending track: the frames between its INDEX 00
\* and its INDEX 01
IndexGap ==
    IF ld.loc.prestart >= 0 THEN ld.loc.track.start - ld.loc.prestart ELSE 0

\* Track 1 is MODE1/2048 data, the pending track 2 is audio and both were
\* declared under one FILE line.
DataThenAudioInOneFile ==
    /\ tracks[1].number = 1
    /\ tracks[1].file # NoFile
    /\ tracks[1].sectorSize = BYTES_PER_COOKED_REDBOOK_FRAME
    /\ tracks[1].attr = DataAttr
    /\ ~tracks[1].mode2
    /\ ld.loc.track.file = tracks[1].file
    /\ ld.loc.track.attr = 0
    /\ ld.loc.track.sectorSize = BYTES_PER_RAW_REDBOOK_FRAME

RoundedUp(bytes, sectorSize) == -((-bytes) \div sectorSize)

\* Track 1 is in one file and the pending track 2 in another.
SecondInOtherFile ==
    /\ tracks[1].number = 1
    /\ tracks[1].file # NoFile
    /\ ld.loc.track.file \notin {NoFile, tracks[1].file}

\* what C20 says of the two tracks once track 2 is pushed
TwoFileLayout ==
    /\ tracks'[1].length = RoundedUp(FileLength[tracks[1].file] - tracks[1].skip,
                                     tracks[1].sectorSize)
    /\ tracks'[2].start = tracks'[1].start + tracks'[1].length
                            + ld.loc.track.start + ld.loc.currPregap
    /\ tracks'[2].skip = IndexGap * ld.loc.track.sectorSize

\* C20: in a two-file sheet, once the builder accepts track 2, track 1's
\* length is the rest of its file after its skip rounded up to whole sectors,
\* track 2's start is track 1's start plus that length plus track 2's INDEX 01
\* and PREGAP, and track 2's skip is its INDEX 01 - INDEX 00 gap in bytes.
C20_SecondFile == [][AddsSecond /\ SecondInOtherFile => TwoFileLayout]_vars

\* the same when track 1's skip does not pass the end of its file
C20_SkipWithinFile ==
    [][/\ AddsSecond /\ SecondInOtherFile
       /\ tracks[1].skip <= FileLength[tracks[1].file]
       => TwoFileLayout]_vars


\* ------------------------------------------------------------ rate conversion
\* ceil(rate * len / 75), the quotient and the remainder of len by 75
\* converted apart so that no product passes 2^31
ExactTotal(rate, len) ==
    rate * (len \div REDBOOK_FRAMES_PER_SECOND)
      + CeilDiv(rate * (len % REDBOOK_FRAMES_PER_SECOND),
                REDBOOK_FRAMES_PER_SECOND)

\* C21: the frame total a Play records is ceil(rate * length / 75) of the
\* source's rate and the session's recorded length, also where
\* rate * length does not fit 32 bits.
C21_ExactTotal ==
    [][\A track_rate \in SourceRates :
          RateCommit(track_rate) =>
             player'.totalTrackFrames =
                ExactTotal(track_rate, player'.totalRedbookFrames)]_vars

\* a session of the largest length on the fastest source: the numerator,
\* 192000 * 449999, needs 37 bits
C21_Witness ==
    /\ player.isPlaying
    /\ player.totalRedbookFrames = MAX_REDBOOK_SECTOR
    /\ player.totalTrackFrames = ExactTotal(192000, MAX_REDBOOK_SECTOR)
    /\ player.totalTrackFrames # TotalTrackFrames_Narrow(192000, MAX_REDBOOK_SECTOR)


\* ------------------------------------------------------------ single-file images
\* The geometries at whose descriptor offset the image holds a descriptor
Matching(name) == {g \in 1..Len(IsoGeometries) : g \in ImagePvd(name)}

FirstMatching(name) == CHOOSE g \in Matching(name) : \A h \in Matching(name) : g <= h

\* The table C22 describes for an image sniffed as geometry g
SniffedTable(name, g) ==
    LET whole == FileLength[name] \div IsoGeometries[g].sectorSize
    IN << [DefaultTrack EXCEPT !.number = 1, !.attr = DataAttr, !.start = 0,
                               !.file = name, !.length = whole,
                               !.sectorSize = IsoGeometries[g].sectorSize,
                               !.mode2 = IsoGeometries[g].mode2],
          [DefaultTrack EXCEPT !.number = 2, !.length = 0, !.file = NoFile,
                               !.start = whole] >>

SniffedAsStated(name) ==
    IF Matching(name) = {}
    THEN LoadFailed'
    ELSE Loaded' /\ tracks' = SniffedTable(name, FirstMatching(name))

\* C22: LoadIsoFile on an image that opens accepts the first of the four
\* geometries whose descriptor the image holds and builds one data track over
\* the whole file and a lead-out at its end; with no such geometry it fails.
C22_SniffOrder ==
    [][\A name \in ImageNames :
          LoadIsoFile(name, FALSE) => SniffedAsStated(name)]_vars

\* the same for the images in which no probe reads past the end of the file
C22_WholeProbes ==
    [][\A name \in ImageNames :
          /\ LoadIsoFile(name, FALSE)
          /\ ~Sniff([pos |-> 0, fail |-> FALSE], name, 1).file.fail
          => SniffedAsStated(name)]_vars


\* ------------------------------------------------------------ pregap lookup
\* Sector s lies between the end of track i and the start of track i + 1.
InGapAfter(i, s) ==
    /\ ULe(tracks[i].start + tracks[i].length, s)
    /\ ULt(s, tracks[i + 1].start)

\* C23: on a loaded table GetTrack resolves every sector in the gap between
\* the end of track i and the start of track i + 1 to track i + 1.
C23_GapIsPregap ==
    Loaded => \A i \in 1..(Len(tracks) - 1), s \in 0..MaxLoadSector :
                 InGapAfter(i, s) => GetTrack(s) = i + 1

\* the same on the tables whose tracks are in ascending order without overlap
C23_OnOrderedTables ==
    (Loaded /\ C13_Ascending) =>
        \A i \in 1..(Len(tracks) - 1), s \in 0..MaxLoadSector :
           InGapAfter(i, s) => GetTrack(s) = i + 1

\* an ordered table with a gap before its second track
GapReached ==
    /\ Loaded /\ C13_Ascending /\ Len(tracks) = 3
    /\ \E s \in 0..MaxLoadSector : InGapAfter(1, s) /\ GetTrack(s) = 2

\* C24: the engine is always in one of Stopped, Playing and Paused: in no
\* state reached by Play, Pause, Stop and callback steps is the paused flag
\* set while the playing flag is clear.
C24_PausedOnlyWhilePlaying == player.isPaused => player.isPlaying

\* C25: the output channel is enabled exactly when the engine is playing and
\* not paused; a Pause(resume) on a stopped engine leaves the output off.
C25_OutputIffPlaying == chanEnabled <=> (player.isPlaying /\ ~player.isPaused)

\* C26: in every reachable state the frames played of the session do not
\* exceed the frames the session was started with.
C26_PlayedWithinTotal == player.playedTrackFrames <= player.totalTrackFrames

\* ReadSector gets past its guards for this sector and computes an offset
ReadsAt(raw, sector) ==
    /\ GetTrack(sector) # NotFound
    /\ tracks[GetTrack(sector)].file # NoFile
    /\ ~(tracks[GetTrack(sector)].sectorSize # BYTES_PER_RAW_REDBOOK_FRAME /\ raw)

\* C27: for every sector the lookup resolves, those of a pregap (sector below
\* the track's start) included, the byte offset ReadSector computes is at
\* least the track's skip: sector - start does not wrap below zero.
C27_OffsetAtLeastSkip ==
    Loaded =>
        \A raw \in BOOLEAN, sector \in LoadSectors :
           ReadsAt(raw, sector) =>
              /\ ~ULt(sector, tracks[GetTrack(sector)].start)
              /\ ReadSeek(tracks[GetTrack(sector)], raw, sector)
                   >= tracks[GetTrack(sector)].skip

\* From the track's start on, the offset is at least the skip.
C27_BodyAtLeastSkip ==
    Loaded =>
        \A raw \in BOOLEAN, sector \in LoadSectors :
           (ReadsAt(raw, sector) /\ ~ULt(sector, tracks[GetTrack(sector)].start))
              => ReadSeek(tracks[GetTrack(sector)], raw, sector)
                   >= tracks[GetTrack(sector)].skip

\* ------------------------------------------------------------ two drives
\* The player is a static member: every image shares it.  A second image is
\* mounted on another drive (refCount = 2) and holds a loaded table of its
\* own; it makes position inquiries only.  The image modelled in tracks is
\* the one that plays, and the one that is unmounted.
Destroyed == ld.pc = "destroyed"

\* A track source nobody owns any more: the shared_ptr of every track that
\* held it is gone, and the object with it.  The sources of the image are
\* held by its table only; player.trackFile is a plain pointer (line 486).
Released(f) ==
    /\ f # NoFile
    /\ \A i \in 1..Len(tracks) : tracks[i].file # f

\* ~CDROM_Interface_Image of the playing image, between two operations of the
\* control context and two fills of the mixer.  refCount goes from 2 to 1, so
\* StopAudio is not called and the channel and the mutex stay.
Destroy ==
    /\ Loaded
    /\ proc["ctl"].pc = "idle" /\ proc["cb"].pc = "idle"
    /\ ~ctlDone
    /\ player' = [player EXCEPT !.cd = IF @ = "image" THEN NoCd ELSE @]
    /\ tracks' = <<>>
    /\ ld' = [ld EXCEPT !.pc = "destroyed"]
    /\ UNCHANGED <<files, chanEnabled, mutexOk, mutex, proc, lastCtl, ctlDone>>

\* GetAudioSub's test "the CD has been played and is at a valid position",
\* after which it calls player.trackFile->getRate()
SubReads == player.trackFile # NoFile /\ player.startSector # 0

\* GetAudioSub on a drive whose table is not empty.  It returns true; a call
\* through a pointer to a released source is undefined: the inquiry returns
\* with whatever rate it read, or faults.
GetAudioSub ==
    /\ proc["ctl"].pc = "idle"
    /\ ~ctlDone
    /\ lastCtl' \in IF SubReads /\ Released(player.trackFile)
                    THEN {"SubTrue", "SubFault"}
                    ELSE {"SubTrue"}
    /\ UNCHANGED <<ld, tracks, files, player, chanEnabled, mutexOk, mutex, proc,
                   ctlDone>>

DriveNext ==
    \/ ~Destroyed /\ ControlStep
    \/ CallBackStep
    \/ Destroy
    \/ GetAudioSub

DriveSpec == Init /\ [][DriveNext]_vars

\* C28: once the image that owns the session is destroyed, no later fill
\* callback and no later position inquiry on any drive reads through the
\* player's source pointer a source that no loaded table owns any more.
C28_NoUseAfterRelease ==
    [][((GetAudioSub /\ SubReads) \/ CallBackDecode)
          => ~Released(player.trackFile)]_vars

\* After the destructor no fill gets past the callback's guards.
C28_NoFillAfterDestroy == [][Destroyed => ~CallBackDecode]_vars

==========================================================================
